---------------------------- MODULE Spec2Model ----------------------------
(***************************************************************************)
(* Model of the native call adapter of remoterg:                           *)
(*   desktop/services/opus-sys/wrapper.h                                   *)
(*       opus_encoder_set_bitrate_wrapper, opus_encoder_set_complexity_... *)
(* Both wrappers are one statement: `return opus_encoder_ctl(st, REQ, v)`. *)
(* opus_encoder_ctl, the encoder object and its life cycle belong to       *)
(* libopus; they are the environment of the adapter and are modelled here  *)
(* only as far as the adapter's contract needs them.                       *)
(* desktop/services/encoder/libyuv-sys/wrapper.h holds two prototypes      *)
(* (ABGRToI420, ABGRToNV12) and no body; there is nothing of it to model.  *)
(*                                                                         *)
(* History variables (wrapperCalls, ctlCalls) record every invocation of a *)
(* wrapper and every invocation of opus_encoder_ctl, so that the relation  *)
(* between the two can be stated.                                          *)
(***************************************************************************)
EXTENDS Integers, Sequences, FiniteSets

\* ------------------------------------------------------------------ bounds
\* Length of the recorded call history (number of wrapper invocations).
MaxCalls == 2

\* ------------------------------------------------- libopus constants (opus_defines.h)
OPUS_OK == 0
OPUS_BAD_ARG == -1
OPUS_UNIMPLEMENTED == -5
OPUS_AUTO == -1000
OPUS_BITRATE_MAX == -1
OPUS_SET_BITRATE_REQUEST == 4002
OPUS_SET_COMPLEXITY_REQUEST == 4010

\* ------------------------------------------------------------ value domains
INT32_MIN == -2147483647 - 1
INT32_MAX == 2147483647

\* int32_t arguments a caller passes: the two range limits, the library's
\* negative sentinel OPUS_AUTO, zero, a small value and a typical bitrate.
\*   value       as bitrate                 as complexity
\*   INT32_MIN   OPUS_BAD_ARG               OPUS_BAD_ARG
\*   OPUS_AUTO   accepted as is             OPUS_BAD_ARG
\*   0           OPUS_BAD_ARG               accepted
\*   7           accepted, raised to 500    accepted
\*   64000       accepted as is             OPUS_BAD_ARG
\*   INT32_MAX   accepted, capped           OPUS_BAD_ARG
ArgValues == {INT32_MIN, OPUS_AUTO, 0, 7, 64000, INT32_MAX}

\* OpusEncoder* values: the null pointer and two distinct allocations.
NULL == 0
Handles == {NULL, 1, 2}
Channels == {1, 2}

\* What an OpusEncoder* points at.  life is "live" between
\* opus_encoder_create and opus_encoder_destroy, "freed" afterwards (the
\* pointer dangles) and "null" for the null pointer.
NoEncoder(life) == [life |-> life, channels |-> 0, bitrate |-> 0, complexity |-> 0]

\* opus_encoder_init: user_bitrate_bps = OPUS_AUTO, complexity = 9.
InitEncoder(channels) ==
    [life |-> "live", channels |-> channels, bitrate |-> OPUS_AUTO, complexity |-> 9]

VARIABLES
    enc,           \* enc[h]: the encoder object behind handle h (h # NULL)
    wrapperCalls,  \* history of wrapper invocations
    ctlCalls,      \* history of opus_encoder_ctl invocations
    pc             \* "running" or "crashed" (process killed by a fault)

vars == <<enc, wrapperCalls, ctlCalls, pc>>

RealHandles == Handles \ {NULL}

\* The object a pointer refers to; the null pointer refers to none.
Deref(e, st) == IF st = NULL THEN NoEncoder("null") ELSE e[st]

IsLive(e, st) == Deref(e, st).life = "live"

\* ------------------------------------------------------------- libopus
\* opus_encoder_ctl on a live encoder object o: the status returned and the
\* object afterwards.
opus_encoder_ctl(o, request, value) ==
    IF request = OPUS_SET_BITRATE_REQUEST THEN
        IF value # OPUS_AUTO /\ value # OPUS_BITRATE_MAX /\ value <= 0
        THEN [ret |-> OPUS_BAD_ARG, enc |-> o]
        ELSE LET v == IF value = OPUS_AUTO \/ value = OPUS_BITRATE_MAX THEN value
                      ELSE IF value <= 500 THEN 500
                      ELSE IF value > 300000 * o.channels THEN 300000 * o.channels
                      ELSE value
             IN  [ret |-> OPUS_OK, enc |-> [o EXCEPT !.bitrate = v]]
    ELSE IF request = OPUS_SET_COMPLEXITY_REQUEST THEN
        IF value < 0 \/ value > 10
        THEN [ret |-> OPUS_BAD_ARG, enc |-> o]
        ELSE [ret |-> OPUS_OK, enc |-> [o EXCEPT !.complexity = value]]
    ELSE [ret |-> OPUS_UNIMPLEMENTED, enc |-> o]

\* Statuses a call through a dangling pointer hands back when it does not
\* fault: the freed block still holds what looks like an encoder, and the
\* library validates the value against it.
UBStatuses == {OPUS_OK, OPUS_BAD_ARG}

\* Outcomes of opus_encoder_ctl(st, request, value) in memory state e.
\* On a live encoder the library decides.  The other cases are undefined
\* behaviour:
\*   - through the null pointer the process faults;
\*   - through a dangling pointer the process faults, or the call works on
\*     the freed block (some status, every encoder as it was), or the
\*     allocator has handed the block to a live encoder g, and the call
\*     works on g: g's status, g's state changed.
CtlOutcomes(e, st, request, value) ==
    IF IsLive(e, st)
    THEN LET r == opus_encoder_ctl(e[st], request, value)
         IN  {[returned |-> TRUE, ret |-> r.ret, enc |-> [e EXCEPT ![st] = r.enc]]}
    ELSE IF st = NULL
    THEN {[returned |-> FALSE, ret |-> 0, enc |-> e]}
    ELSE {[returned |-> FALSE, ret |-> 0, enc |-> e]}
         \cup {[returned |-> TRUE, ret |-> s, enc |-> e] : s \in UBStatuses}
         \cup {[returned |-> TRUE,
                ret |-> opus_encoder_ctl(e[g], request, value).ret,
                enc |-> [e EXCEPT ![g] = opus_encoder_ctl(e[g], request, value).enc]]
               : g \in {x \in RealHandles : IsLive(e, x)}}

\* ------------------------------------------------------------- adapter
\* The history entry of one opus_encoder_ctl invocation made by the wrapper
\* invocation that is in progress.
CtlRecord(st, request, value, out) ==
    [by |-> Len(wrapperCalls) + 1, st |-> st, request |-> request,
     value |-> value, returned |-> out.returned, ret |-> out.ret]

\* A wrapper invocation `frame` ends: it made the control calls newCtl, left
\* memory as newEnc and either returned ret or died in a fault.
Finish(frame, newCtl, returned, ret, newEnc) ==
    /\ pc = "running"
    /\ Len(wrapperCalls) < MaxCalls
    /\ ctlCalls' = ctlCalls \o newCtl
    /\ wrapperCalls' = Append(wrapperCalls,
           [fn |-> frame.fn, st |-> frame.st, arg |-> frame.arg,
            pre |-> enc, post |-> newEnc, returned |-> returned, ret |-> ret])
    /\ enc' = newEnc
    /\ pc' = IF returned THEN "running" ELSE "crashed"

\* `return opus_encoder_ctl(st, request, value);` executed in the wrapper
\* invocation `frame`: one call of the control entry point, whose status is
\* the wrapper's status.
ReturnCtl(frame, st, request, value) ==
    \E out \in CtlOutcomes(enc, st, request, value) :
        Finish(frame, <<CtlRecord(st, request, value, out)>>,
               out.returned, out.ret, out.enc)

\* Variants of the bitrate wrapper, each a slip the one-line body could
\* suffer; used to show that the properties below depend on the body.
\*   return opus_encoder_ctl(st, OPUS_SET_BITRATE_REQUEST, bitrate) != OPUS_OK;
set_bitrate_returns_flag(st, bitrate) ==
    \E out \in CtlOutcomes(enc, st, OPUS_SET_BITRATE_REQUEST, bitrate) :
        Finish([fn |-> "set_bitrate", st |-> st, arg |-> bitrate],
               <<CtlRecord(st, OPUS_SET_BITRATE_REQUEST, bitrate, out)>>,
               out.returned, IF out.ret = OPUS_OK THEN 0 ELSE 1, out.enc)

\*   if (bitrate <= 0) return OPUS_BAD_ARG;   before the control call
set_bitrate_prevalidated(st, bitrate) ==
    IF bitrate <= 0
    THEN Finish([fn |-> "set_bitrate", st |-> st, arg |-> bitrate],
                <<>>, TRUE, OPUS_BAD_ARG, enc)
    ELSE ReturnCtl([fn |-> "set_bitrate", st |-> st, arg |-> bitrate],
                   st, OPUS_SET_BITRATE_REQUEST, bitrate)

\*   if (bitrate < 0) bitrate = 0;   before the control call
set_bitrate_clamped(st, bitrate) ==
    ReturnCtl([fn |-> "set_bitrate", st |-> st, arg |-> bitrate],
              st, OPUS_SET_BITRATE_REQUEST, IF bitrate < 0 THEN 0 ELSE bitrate)

\*   static int32_t last;  if (bitrate == last) return OPUS_OK;
\*   (the last bitrate that was set successfully is remembered)
set_bitrate_skip_repeated(st, bitrate) ==
    IF \E i \in 1..Len(wrapperCalls) :
           /\ wrapperCalls[i].fn = "set_bitrate"
           /\ wrapperCalls[i].arg = bitrate
           /\ wrapperCalls[i].returned
           /\ wrapperCalls[i].ret = OPUS_OK
    THEN Finish([fn |-> "set_bitrate", st |-> st, arg |-> bitrate],
                <<>>, TRUE, OPUS_OK, enc)
    ELSE ReturnCtl([fn |-> "set_bitrate", st |-> st, arg |-> bitrate],
                   st, OPUS_SET_BITRATE_REQUEST, bitrate)

opus_encoder_set_bitrate_wrapper(st, bitrate) ==
    ReturnCtl([fn |-> "set_bitrate", st |-> st, arg |-> bitrate],
              st, OPUS_SET_BITRATE_REQUEST, bitrate)

\* Variants of the complexity wrapper.
\*   copied from the bitrate wrapper without changing the request code
set_complexity_with_bitrate_request(st, complexity) ==
    ReturnCtl([fn |-> "set_complexity", st |-> st, arg |-> complexity],
              st, OPUS_SET_BITRATE_REQUEST, complexity)

\*   the control call is repeated once when it reports an error
set_complexity_retrying(st, complexity) ==
    \E out \in CtlOutcomes(enc, st, OPUS_SET_COMPLEXITY_REQUEST, complexity) :
        IF out.returned /\ out.ret # OPUS_OK
        THEN \E again \in CtlOutcomes(out.enc, st,
                                      OPUS_SET_COMPLEXITY_REQUEST, complexity) :
                 Finish([fn |-> "set_complexity", st |-> st, arg |-> complexity],
                        <<CtlRecord(st, OPUS_SET_COMPLEXITY_REQUEST, complexity, out),
                          CtlRecord(st, OPUS_SET_COMPLEXITY_REQUEST, complexity, again)>>,
                        again.returned, again.ret, again.enc)
        ELSE Finish([fn |-> "set_complexity", st |-> st, arg |-> complexity],
                    <<CtlRecord(st, OPUS_SET_COMPLEXITY_REQUEST, complexity, out)>>,
                    out.returned, out.ret, out.enc)

\*   the encoder is destroyed when the control call reports an error
set_complexity_destroy_on_error(st, complexity) ==
    \E out \in CtlOutcomes(enc, st, OPUS_SET_COMPLEXITY_REQUEST, complexity) :
        Finish([fn |-> "set_complexity", st |-> st, arg |-> complexity],
               <<CtlRecord(st, OPUS_SET_COMPLEXITY_REQUEST, complexity, out)>>,
               out.returned, out.ret,
               IF IsLive(enc, st) /\ out.ret # OPUS_OK
               THEN [out.enc EXCEPT ![st] = NoEncoder("freed")]
               ELSE out.enc)

opus_encoder_set_complexity_wrapper(st, complexity) ==
    ReturnCtl([fn |-> "set_complexity", st |-> st, arg |-> complexity],
              st, OPUS_SET_COMPLEXITY_REQUEST, complexity)

\* ------------------------------------------------------------- specification
\* The adapter has no construction of its own.  The encoders it is handed
\* are created and destroyed by its callers: every non-null handle either
\* refers to a freshly created encoder or dangles.
Init ==
    /\ enc \in [RealHandles ->
                  {InitEncoder(c) : c \in Channels} \cup {NoEncoder("freed")}]
    /\ wrapperCalls = <<>>
    /\ ctlCalls = <<>>
    /\ pc = "running"

Next ==
    \/ \E st \in Handles, bitrate \in ArgValues :
           opus_encoder_set_bitrate_wrapper(st, bitrate)
    \/ \E st \in Handles, complexity \in ArgValues :
           opus_encoder_set_complexity_wrapper(st, complexity)

Spec == Init /\ [][Next]_vars

\* ------------------------------------------------------------- claims
WIdx == 1..Len(wrapperCalls)
CIdx == 1..Len(ctlCalls)

\* The control calls issued by the i-th wrapper invocation.
CtlBy(i) == {j \in CIdx : ctlCalls[j].by = i}

\* The operation each adapter function stands for (interface table).
DocumentedRequest(fn) ==
    IF fn = "set_bitrate" THEN OPUS_SET_BITRATE_REQUEST
    ELSE OPUS_SET_COMPLEXITY_REQUEST

\* The i-th wrapper invocation forwarded to the control entry point with
\* request code `request`: same handle, same argument, and the status (or
\* fault) of that control call is the wrapper's; on a live encoder this is
\* the status libopus computes for the encoder state before the call.
ForwardsStatus(i, request) ==
    LET w == wrapperCalls[i] IN
    /\ \E j \in CtlBy(i) :
          /\ ctlCalls[j].st = w.st
          /\ ctlCalls[j].request = request
          /\ ctlCalls[j].value = w.arg
          /\ ctlCalls[j].returned = w.returned
          /\ w.returned => ctlCalls[j].ret = w.ret
    /\ IsLive(w.pre, w.st) =>
          /\ w.returned
          /\ w.ret = opus_encoder_ctl(w.pre[w.st], request, w.arg).ret

\* The requests and payloads of the control calls issued by the i-th
\* wrapper invocation, in order.
CtlShape(i) ==
    LET IssuedBy(c) == c.by = i
        s == SelectSeq(ctlCalls, IssuedBy)
    IN  [n \in 1..Len(s) |-> <<s[n].request, s[n].value>>]

\* Memory before the first wrapper invocation.
InitialMemory == IF wrapperCalls = <<>> THEN enc ELSE wrapperCalls[1].pre

\* The memories the first k recorded invocations can leave behind, had each
\* been made as a direct opus_encoder_ctl call with the documented request
\* code and had it ended (status or fault) as recorded.
RECURSIVE DirectRuns(_)
DirectRuns(k) ==
    IF k = 0 THEN {InitialMemory}
    ELSE LET w == wrapperCalls[k]
         IN  UNION {
                 {out.enc : out \in
                     {o \in CtlOutcomes(m, w.st, DocumentedRequest(w.fn), w.arg) :
                          /\ o.returned = w.returned
                          /\ o.returned => o.ret = w.ret}}
                 : m \in DirectRuns(k - 1)}

\* C1: whatever the encoder state and the bitrate (valid or not),
\* opus_encoder_set_bitrate_wrapper(st, bitrate) returns exactly the status
\* of opus_encoder_ctl(st, OPUS_SET_BITRATE_REQUEST, bitrate).
C1_BitrateStatusIsCtlStatus ==
    \A i \in WIdx :
        wrapperCalls[i].fn = "set_bitrate" =>
            ForwardsStatus(i, OPUS_SET_BITRATE_REQUEST)

\* A live encoder has had a bitrate accepted and a bitrate rejected.
C1_Witness ==
    \E i, k \in WIdx :
        /\ wrapperCalls[i].fn = "set_bitrate"
        /\ wrapperCalls[k].fn = "set_bitrate"
        /\ IsLive(wrapperCalls[i].pre, wrapperCalls[i].st)
        /\ IsLive(wrapperCalls[k].pre, wrapperCalls[k].st)
        /\ wrapperCalls[i].ret = OPUS_OK
        /\ wrapperCalls[k].ret = OPUS_BAD_ARG

\* C2: opus_encoder_set_complexity_wrapper(st, complexity) returns exactly
\* the status of opus_encoder_ctl(st, OPUS_SET_COMPLEXITY_REQUEST,
\* complexity); every control call made by the complexity wrapper carries the
\* complexity request code and every one made by the bitrate wrapper carries
\* the bitrate request code, so neither issues the other's operation.
C2_ComplexityStatusAndRequestCodes ==
    /\ \A i \in WIdx :
           wrapperCalls[i].fn = "set_complexity" =>
               ForwardsStatus(i, OPUS_SET_COMPLEXITY_REQUEST)
    /\ \A j \in CIdx :
           /\ ctlCalls[j].by \in WIdx
           /\ wrapperCalls[ctlCalls[j].by].fn = "set_complexity" =>
                  /\ ctlCalls[j].request = OPUS_SET_COMPLEXITY_REQUEST
                  /\ ctlCalls[j].request # OPUS_SET_BITRATE_REQUEST
           /\ wrapperCalls[ctlCalls[j].by].fn = "set_bitrate" =>
                  /\ ctlCalls[j].request = OPUS_SET_BITRATE_REQUEST
                  /\ ctlCalls[j].request # OPUS_SET_COMPLEXITY_REQUEST

\* Both wrappers were called on live encoders with the same argument and the
\* two operations answered differently.
C2_Witness ==
    \E i, k \in WIdx :
        /\ wrapperCalls[i].fn = "set_complexity"
        /\ wrapperCalls[k].fn = "set_bitrate"
        /\ wrapperCalls[i].arg = wrapperCalls[k].arg
        /\ IsLive(wrapperCalls[i].pre, wrapperCalls[i].st)
        /\ IsLive(wrapperCalls[k].pre, wrapperCalls[k].st)
        /\ wrapperCalls[i].ret # wrapperCalls[k].ret

\* C3: the adapter adds no error of its own: a wrapper that returned a status
\* made a control call that returned that status (also for out-of-range
\* arguments and null or dangling handles), and every error status a control
\* call returned is the status its wrapper returned, unchanged.
C3_NoErrorOfItsOwn ==
    /\ \A i \in WIdx :
           wrapperCalls[i].returned =>
               \E j \in CtlBy(i) :
                   /\ ctlCalls[j].returned
                   /\ ctlCalls[j].ret = wrapperCalls[i].ret
    /\ \A j \in CIdx :
           (ctlCalls[j].returned /\ ctlCalls[j].ret < 0) =>
               /\ ctlCalls[j].by \in WIdx
               /\ wrapperCalls[ctlCalls[j].by].returned
               /\ wrapperCalls[ctlCalls[j].by].ret = ctlCalls[j].ret

\* A wrapper returned the library's error for an out-of-range argument, and
\* a wrapper was called with a null or dangling handle and returned.
C3_Witness ==
    \E i, k \in WIdx :
        /\ IsLive(wrapperCalls[i].pre, wrapperCalls[i].st)
        /\ wrapperCalls[i].ret = OPUS_BAD_ARG
        /\ ~IsLive(wrapperCalls[k].pre, wrapperCalls[k].st)
        /\ wrapperCalls[k].returned

\* C4: every wrapper invocation makes exactly one control call, neither
\* retried after a failure nor skipped for a repeated handle and argument:
\* the control calls are, position by position, the wrapper calls with their
\* request code, handle and argument.
C4_OneCtlPerWrapperCall ==
    /\ Len(ctlCalls) = Len(wrapperCalls)
    /\ \A i \in WIdx :
           /\ Cardinality(CtlBy(i)) = 1
           /\ i \in CIdx =>
                  /\ ctlCalls[i].by = i
                  /\ ctlCalls[i].st = wrapperCalls[i].st
                  /\ ctlCalls[i].request = DocumentedRequest(wrapperCalls[i].fn)
                  /\ ctlCalls[i].value = wrapperCalls[i].arg

\* The same wrapper call was made twice in a row on a live encoder and
\* failed the first time.
C4_Witness ==
    /\ Len(wrapperCalls) >= 2
    /\ wrapperCalls[1].fn = wrapperCalls[2].fn
    /\ wrapperCalls[1].st = wrapperCalls[2].st
    /\ wrapperCalls[1].arg = wrapperCalls[2].arg
    /\ IsLive(wrapperCalls[1].pre, wrapperCalls[1].st)
    /\ wrapperCalls[1].ret = OPUS_BAD_ARG
    /\ Len(ctlCalls) = 2

\* C5: a wrapper call has no effect beyond that of its control call: after
\* any sequence of wrapper calls memory is one the same sequence of direct
\* opus_encoder_ctl calls leaves behind (exactly one on live handles), and
\* no handle has been created, destroyed or replaced.  (The adapter has no
\* variable of its own: enc is the library's memory, the histories are
\* observations.)
C5_NoEffectBeyondCtl ==
    /\ enc \in DirectRuns(Len(wrapperCalls))
    /\ \A h \in RealHandles : enc[h].life = InitialMemory[h].life
    /\ (\A i \in WIdx : IsLive(wrapperCalls[i].pre, wrapperCalls[i].st))
           => Cardinality(DirectRuns(Len(wrapperCalls))) = 1

\* Two calls changed bitrate and complexity of one live encoder; the other
\* handle is as it was before the first call.
C5_Witness ==
    /\ Len(wrapperCalls) = 2
    /\ \E h \in RealHandles :
           /\ IsLive(enc, h)
           /\ enc[h].bitrate # OPUS_AUTO
           /\ enc[h].complexity # 9
           /\ \A g \in RealHandles \ {h} : enc[g] = InitialMemory[g]

\* C6: the payload of the control call is the int32_t value the wrapper was
\* given, over the whole range [-2^31, 2^31-1]: no clamping, truncation,
\* wrap-around or sign change.
C6_PayloadUnchanged ==
    \A j \in CIdx :
        /\ ctlCalls[j].by \in WIdx
        /\ ctlCalls[j].value = wrapperCalls[ctlCalls[j].by].arg
        /\ ctlCalls[j].value >= INT32_MIN
        /\ ctlCalls[j].value <= INT32_MAX

\* Both range limits went through a wrapper.
C6_Witness ==
    \E i, k \in CIdx :
        /\ wrapperCalls[ctlCalls[i].by].arg = INT32_MIN
        /\ ctlCalls[i].value = INT32_MIN
        /\ wrapperCalls[ctlCalls[k].by].arg = INT32_MAX
        /\ ctlCalls[k].value = INT32_MAX

\* C8: the adapter is deterministic in encoder state and argument: any two
\* invocations of the same wrapper with the same argument on live encoders
\* in the same state make the same control call and yield the same status
\* and the same encoder state, whatever was called before or on which
\* handle.
C8_DeterministicInStateAndArgument ==
    \A i, k \in WIdx :
        LET a == wrapperCalls[i]
            b == wrapperCalls[k]
        IN  ( /\ a.fn = b.fn
              /\ a.arg = b.arg
              /\ IsLive(a.pre, a.st)
              /\ IsLive(b.pre, b.st)
              /\ a.pre[a.st] = b.pre[b.st] )
            => /\ CtlShape(i) = CtlShape(k)
               /\ a.returned = b.returned
               /\ a.ret = b.ret
               /\ a.post[a.st] = b.post[b.st]

\* The same successful call was made on two different live encoders in the
\* same state, the second after the first.
C8_Witness ==
    /\ Len(wrapperCalls) >= 2
    /\ wrapperCalls[1].fn = wrapperCalls[2].fn
    /\ wrapperCalls[1].arg = wrapperCalls[2].arg
    /\ wrapperCalls[1].st # wrapperCalls[2].st
    /\ IsLive(wrapperCalls[1].pre, wrapperCalls[1].st)
    /\ IsLive(wrapperCalls[2].pre, wrapperCalls[2].st)
    /\ wrapperCalls[1].pre[wrapperCalls[1].st] = wrapperCalls[2].pre[wrapperCalls[2].st]
    /\ wrapperCalls[2].ret = OPUS_OK
    /\ wrapperCalls[2].post[wrapperCalls[2].st] # wrapperCalls[2].pre[wrapperCalls[2].st]

=============================================================================
